---- MODULE Spec2Model ----
(***************************************************************************)
(* Model of manage.py: CommandRunner discovers the command modules of a    *)
(* package (command_list), builds a two-level argparse parser from them    *)
(* (argument_parser) and dispatches the parsed command line (run).         *)
(* The interpreter is Python 2 (iteritems, e.message), so argparse is      *)
(* modelled as Python 2.7's: the subcommand is a required positional,      *)
(* every parser owns -h/--help, and long options match by unique prefix.   *)
(***************************************************************************)
EXTENDS Integers, Sequences, FiniteSets, TLC

(* ---------------------------- bounds ---------------------------------- *)
\* largest number of modules in the package
MaxModules == 2
\* largest number of option tokens after the subcommand on a command line
MaxArgs == 1
\* iter_modules is called at most this many times in one behaviour
MaxEnumerations == 3

(* ---------------------------- values ---------------------------------- *)
\* Python values that can end up in the parsed-flags namespace.
None == [tag |-> "None", n |-> 0, s |-> ""]
StrV(x) == [tag |-> "str", n |-> 0, s |-> x]
IntV(k) == [tag |-> "int", n |-> k, s |-> ""]

Range(f) == {f[i] : i \in DOMAIN f}
EmptyMap == [k \in {} |-> 0]

Digits == <<"0", "1", "2", "3", "4", "5", "6", "7", "8", "9">>
IsDigit(c) == \E d \in 1..10 : Digits[d] = c
DigitValue(c) == (CHOOSE d \in 1..10 : Digits[d] = c) - 1
IsDecimal(raw) == Len(raw) > 0 /\ \A i \in 1..Len(raw) : IsDigit(SubSeq(raw, i, i))
RECURSIVE ParseInt(_)
ParseInt(raw) ==
    IF Len(raw) = 0 THEN 0
    ELSE 10 * ParseInt(SubSeq(raw, 1, Len(raw) - 1))
         + DigitValue(SubSeq(raw, Len(raw), Len(raw)))

\* type=int / type=str of a flag applied to the raw string of the command
\* line (argparse _get_value): int() raises ValueError on a non-number,
\* which argparse turns into a parse error; str() keeps the string.
Coerce(type, raw) ==
    IF type = "int"
    THEN IF IsDecimal(raw) THEN [ok |-> TRUE, value |-> IntV(ParseInt(raw))]
         ELSE [ok |-> FALSE, value |-> None]
    ELSE [ok |-> TRUE, value |-> StrV(raw)]

(* ------------------------ command modules ----------------------------- *)
\* One entry of a Command.arguments mapping: the keyword arguments given to
\* add_argument. unsupported marks an option add_argument rejects.
Flag(type, required) ==
    [type |-> type, required |-> required, hasDefault |-> FALSE,
     default |-> None, unsupported |-> FALSE]
FlagWithDefault(type, value) ==
    [type |-> type, required |-> FALSE, hasDefault |-> TRUE,
     default |-> value, unsupported |-> FALSE]
UnsupportedFlag ==
    [type |-> "int", required |-> FALSE, hasDefault |-> FALSE,
     default |-> None, unsupported |-> TRUE]

\* A module of the package: loads says whether importing it succeeds;
\* hasCommand whether it defines a class named Command; description and
\* arguments are that class's attributes; call is its call method.
Module(desc, argsKind, schema, call) ==
    [loads |-> TRUE, hasCommand |-> TRUE, description |-> desc,
     arguments |-> argsKind, schema |-> schema, call |-> call]

Absent == "<absent>"

correct_command ==
    Module("Help message for Correct Command", "mapping",
           [f \in {"--user_id"} |-> Flag("int", FALSE)], "ok")
command_with_few_parameters ==
    Module("Help message for Command with Few Parameters", "mapping",
           [f \in {"--user_id", "--password"} |->
               IF f = "--user_id" THEN Flag("int", FALSE) ELSE Flag("str", FALSE)],
           "ok")
command_with_wrong_classname ==
    [loads |-> TRUE, hasCommand |-> FALSE, description |-> Absent,
     arguments |-> "absent", schema |-> EmptyMap, call |-> "missing"]
hello_user ==
    Module("Prints Hello World!", "mapping",
           [f \in {"--name"} |-> Flag("str", TRUE)], "ok")

\* Variants of the sample commands, one per way a module can differ.
NoDescription == Module(Absent, "mapping", [f \in {"--user_id"} |-> Flag("int", FALSE)], "ok")
NoArguments == Module("No arguments attribute", "absent", EmptyMap, "ok")
NotAMapping == Module("Arguments is a list", "notmapping", EmptyMap, "ok")
BadOption == Module("Unsupported flag option", "mapping",
                    [f \in {"--user_id"} |-> UnsupportedFlag], "ok")
CallRaises == Module("call raises", "mapping",
                     [f \in {"--user_id"} |-> Flag("int", FALSE)], "raises")
NoCall == Module("no call method", "mapping",
                 [f \in {"--user_id"} |-> Flag("int", FALSE)], "missing")
\* a command whose flags are named --which and --user
WhichFlag == Module("declares --which and --user", "mapping",
                    [f \in {"--which", "--user"} |-> Flag("str", FALSE)], "ok")
WithDefault == Module("explicit default", "mapping",
                      [f \in {"--user_id"} |-> FlagWithDefault("int", IntV(7))], "ok")
Unloadable ==
    [loads |-> FALSE, hasCommand |-> FALSE, description |-> Absent,
     arguments |-> "absent", schema |-> EmptyMap, call |-> "missing"]

Modules ==
    {correct_command, command_with_few_parameters, command_with_wrong_classname,
     hello_user, NoDescription, NoArguments, NotAMapping, BadOption, CallRaises, NoCall,
     WhichFlag, WithDefault, Unloadable}

\* pkgutil.iter_modules yields the modules of the package directory in
\* sorted order of their names: the i-th module is named ModuleNames[i].
ModuleNames == <<"alpha", "beta", "gamma", "delta", "epsilon">>

Packages == UNION {[1..n -> Modules] : n \in 0..MaxModules}

VARIABLES package, _command_list, objects, enumerations, firstMapping, outcome, pc
vars == <<package, _command_list, objects, enumerations, firstMapping, outcome, pc>>

NamesOf(pkg) == {ModuleNames[i] : i \in 1..Len(pkg)}
IndexOf(name) == CHOOSE i \in 1..Len(ModuleNames) : ModuleNames[i] = name
\* the module object a registry entry refers to
ModuleAt(pkg, name) == pkg[IndexOf(name)]

Conforming(m) ==
    m.loads /\ m.hasCommand /\ m.description # Absent /\ m.arguments # "absent"
Malformed(m) ==
    Conforming(m) /\ (m.arguments = "notmapping"
                      \/ \E f \in DOMAIN m.schema : m.schema[f].unsupported)

(* --------------------------- command_list ------------------------------ *)
\* _command_list is None (id 0) or a dict object: id is the object's
\* identity, map its contents (module name -> index of the module).
NoneList == [id |-> 0, map |-> EmptyMap]

\* `not self._command_list`: None and the empty dict are both falsy.
Falsy(cl) == cl.id = 0 \/ DOMAIN cl.map = {}

\* number of modules imported before the first one whose import raises
Imported(pkg) ==
    IF \A i \in 1..Len(pkg) : pkg[i].loads THEN Len(pkg)
    ELSE (CHOOSE i \in 1..Len(pkg) :
             ~pkg[i].loads /\ \A j \in 1..(i - 1) : pkg[j].loads) - 1

\* One access to the command_list property, from the state (cl, objs, enums).
\* raised: an import raised and the error leaves the getter.
command_list(pkg, cl, objs, enums) ==
    IF Falsy(cl)
    THEN LET k == Imported(pkg)
             filled == [id |-> objs + 1,
                        map |-> [nm \in {ModuleNames[i] : i \in 1..k} |-> IndexOf(nm)]]
         IN [raised |-> k < Len(pkg), value |-> filled, list |-> filled,
             objs |-> objs + 1, enums |-> enums + 1, enumerated |-> TRUE]
    ELSE [raised |-> FALSE, value |-> cl, list |-> cl,
          objs |-> objs, enums |-> enums, enumerated |-> FALSE]

(* -------------------------- argument_parser --------------------------- *)
\* command_list.iteritems(): CPython 2 iterates a dict in an order fixed by
\* the hashes of its keys, unrelated to the order of insertion. The model
\* iterates by descending position of the name; packages assign every unit
\* to every name, so every relative order of the units occurs.
RECURSIVE Descending(_)
Descending(S) ==
    IF S = {} THEN <<>>
    ELSE LET last == CHOOSE nm \in S : \A other \in S : IndexOf(other) <= IndexOf(nm)
         IN <<last>> \o Descending(S \ {last})
iteritems(map) == Descending(DOMAIN map)

\* The attribute whose lookup raises AttributeError inside the try block
\* (module.Command.description, then module.Command.arguments), or Absent.
MissingAttribute(m) ==
    IF ~m.hasCommand THEN "Command"
    ELSE IF m.description = Absent THEN "description"
    ELSE IF m.arguments = "absent" THEN "arguments"
    ELSE Absent

EmptyParser == [choices |-> <<>>, sub |-> EmptyMap]

\* Faulty variant of AddSubparser: add_argument is given the type and help
\* of a flag but not its required option.
AddSubparser_DropRequired(parser, command, m) ==
    [choices |-> Append(parser.choices, command),
     sub |-> [c \in DOMAIN parser.sub \cup {command} |->
                IF c = command
                THEN [help |-> m.description, which |-> command,
                      flags |-> [f \in DOMAIN m.schema |->
                                   [m.schema[f] EXCEPT !.required = FALSE]]]
                ELSE parser.sub[c]]]

\* subparsers.add_parser(command, help=description), set_defaults(which=
\* command) and one add_argument per flag of the schema.
AddSubparser(parser, command, m) ==
    [choices |-> Append(parser.choices, command),
     sub |-> [c \in DOMAIN parser.sub \cup {command} |->
                IF c = command
                THEN [help |-> m.description, which |-> command, flags |-> m.schema]
                ELSE parser.sub[c]]]

\* Faulty variant of BuildFrom: the try block also covers the schema, so a
\* malformed schema is logged and skipped like a missing attribute.
RECURSIVE BuildFrom_SkipMalformed(_, _, _, _, _)
BuildFrom_SkipMalformed(pkg, order, i, parser, log) ==
    IF i > Len(order) THEN [raised |-> FALSE, error |-> "", parser |-> parser, log |-> log]
    ELSE LET command == order[i]
             m == ModuleAt(pkg, command)
         IN IF MissingAttribute(m) # Absent \/ m.arguments = "notmapping"
               \/ \E f \in DOMAIN m.schema : m.schema[f].unsupported
            THEN BuildFrom_SkipMalformed(pkg, order, i + 1, parser,
                           Append(log, [module |-> command, missing |-> MissingAttribute(m)]))
            ELSE BuildFrom_SkipMalformed(pkg, order, i + 1,
                                         AddSubparser(parser, command, m), log)

\* The loop of argument_parser over command_list.iteritems(), from the
\* i-th entry of the iteration order on.
RECURSIVE BuildFrom(_, _, _, _, _)
BuildFrom(pkg, order, i, parser, log) ==
    IF i > Len(order) THEN [raised |-> FALSE, error |-> "", parser |-> parser, log |-> log]
    ELSE LET command == order[i]
             m == ModuleAt(pkg, command)
         IN IF MissingAttribute(m) # Absent
            THEN BuildFrom(pkg, order, i + 1, parser,
                           Append(log, [module |-> command, missing |-> MissingAttribute(m)]))
            ELSE IF m.arguments = "notmapping"
            THEN [raised |-> TRUE, error |-> "AttributeError", parser |-> EmptyParser, log |-> log]
            ELSE IF \E f \in DOMAIN m.schema : m.schema[f].unsupported
            THEN [raised |-> TRUE, error |-> "TypeError", parser |-> EmptyParser, log |-> log]
            ELSE BuildFrom(pkg, order, i + 1, AddSubparser(parser, command, m), log)

\* The body of the argument_parser property once command_list returned the
\* mapping that iterates in the given order.
argument_parser(pkg, order) == BuildFrom(pkg, order, 1, EmptyParser, <<>>)

(* ------------------------------ parse_args ----------------------------- *)
HelpOption == "--help"
NoCommand == ""

\* dest of a long option: the option string without its leading dashes
Dest(opt) == SubSeq(opt, 3, Len(opt))

IsPrefix(p, s) == Len(p) <= Len(s) /\ SubSeq(s, 1, Len(p)) = p

\* argparse _parse_optional: the option string of the subparser that the
\* token opt selects: itself when declared, else the only declared option
\* it is a prefix of; "?" when there is none, "*" when there are several.
Resolve(flags, opt) ==
    LET declared == DOMAIN flags \cup {HelpOption}
        matches == {f \in declared : IsPrefix(opt, f)}
    IN IF opt \in declared THEN opt
       ELSE IF matches = {} THEN "?"
       ELSE IF Cardinality(matches) = 1 THEN CHOOSE f \in matches : TRUE
       ELSE "*"

\* The parsed-flags namespace before any token is consumed: every flag's
\* default (its own, else the parser-level default of its dest, else None),
\* then the parser-level defaults (which) not yet set.
InitialNamespace(sub) ==
    LET dests == {Dest(f) : f \in DOMAIN sub.flags}
        flagOf(d) == CHOOSE f \in DOMAIN sub.flags : Dest(f) = d
    IN [d \in dests \cup {"which"} |->
          IF d \in dests
          THEN IF sub.flags[flagOf(d)].hasDefault THEN sub.flags[flagOf(d)].default
               ELSE IF d = "which" THEN StrV(sub.which)
               ELSE None
          ELSE StrV(sub.which)]

Exit(code, stream, msg, about) ==
    [status |-> "exit", code |-> code, stream |-> stream, msg |-> msg,
     about |-> about, args |-> EmptyMap]
Parsed(args) ==
    [status |-> "ok", code |-> 0, stream |-> "", msg |-> "", about |-> "", args |-> args]

\* The subparser consuming the tokens rest[i..] left to right.
RECURSIVE Consume(_, _, _, _, _, _)
Consume(sub, rest, i, args, seen, extras) ==
    IF i > Len(rest) THEN [exit |-> FALSE, result |-> Parsed(args), args |-> args,
                           seen |-> seen, extras |-> extras]
    ELSE LET f == Resolve(sub.flags, rest[i].opt)
         IN IF f = "?"
            THEN Consume(sub, rest, i + 1, args, seen, Append(extras, rest[i].opt))
            ELSE IF f = HelpOption
            THEN [exit |-> TRUE, result |-> Exit(0, "stdout", "help", ""),
                  args |-> args, seen |-> seen, extras |-> extras]
            ELSE LET v == Coerce(sub.flags[f].type, rest[i].raw)
                 IN IF ~v.ok
                    THEN [exit |-> TRUE, result |-> Exit(2, "stderr", "invalid value", f),
                          args |-> args, seen |-> seen, extras |-> extras]
                    ELSE Consume(sub, rest, i + 1, [args EXCEPT ![Dest(f)] = v.value],
                                 seen \cup {f}, extras)

\* After the tokens: required flags must have been seen; a string default
\* of an unseen flag is converted by the flag's type.
Finish(sub, c) ==
    LET unseen == DOMAIN sub.flags \ c.seen
        missing == {f \in unseen : sub.flags[f].required}
        converted(f) == Coerce(sub.flags[f].type, c.args[Dest(f)].s)
        toConvert == {f \in unseen : c.args[Dest(f)].tag = "str"
                                     /\ c.args[Dest(f)] = InitialNamespace(sub)[Dest(f)]}
    IN IF missing # {}
       THEN Exit(2, "stderr", "required", CHOOSE f \in missing : TRUE)
       ELSE IF \E f \in toConvert : ~converted(f).ok
       THEN Exit(2, "stderr", "invalid value", CHOOSE f \in toConvert : ~converted(f).ok)
       ELSE IF c.extras # <<>>
       THEN Exit(2, "stderr", "unrecognized arguments", c.extras[1])
       ELSE Parsed([d \in DOMAIN c.args |->
                      IF \E f \in toConvert : Dest(f) = d
                      THEN converted(CHOOSE f \in toConvert : Dest(f) = d).value
                      ELSE c.args[d]])

\* parse_args of the subparser chosen by the subcommand token
SubParse(sub, rest) ==
    IF \E i \in 1..Len(rest) : Resolve(sub.flags, rest[i].opt) = "*"
    THEN Exit(2, "stderr", "ambiguous option",
              rest[CHOOSE i \in 1..Len(rest) : Resolve(sub.flags, rest[i].opt) = "*"].opt)
    ELSE LET c == Consume(sub, rest, 1, InitialNamespace(sub), {}, <<>>)
         IN IF c.exit THEN c.result ELSE Finish(sub, c)

\* Faulty variant of parse_args: the subcommand is optional (as in Python
\* 3's argparse), so a command line without one parses to an empty namespace.
parse_args_OptionalCommand(parser, argv) ==
    IF argv.help THEN Exit(0, "stdout", "help", "")
    ELSE IF argv.cmd = NoCommand THEN Parsed(EmptyMap)
    ELSE IF argv.cmd \notin DOMAIN parser.sub THEN Exit(2, "stderr", "invalid choice", argv.cmd)
    ELSE SubParse(parser.sub[argv.cmd], argv.rest)

\* parser.parse_args() on the command line argv = (top-level -h?, the
\* subcommand token or NoCommand, the option tokens after it).
parse_args(parser, argv) ==
    IF argv.help THEN Exit(0, "stdout", "help", "")
    ELSE IF argv.cmd = NoCommand THEN Exit(2, "stderr", "too few arguments", "")
    ELSE IF argv.cmd \notin DOMAIN parser.sub THEN Exit(2, "stderr", "invalid choice", argv.cmd)
    ELSE SubParse(parser.sub[argv.cmd], argv.rest)

(* --------------------------------- run --------------------------------- *)
\* what one access to command_list did, as kept in the outcome
Access(acc) ==
    [raised |-> acc.raised, id |-> acc.value.id, keys |-> DOMAIN acc.value.map,
     enumerated |-> acc.enumerated]

NoBuild == [raised |-> FALSE, error |-> "", parser |-> EmptyParser, log |-> <<>>]
NoParse == [status |-> "none", code |-> 0, stream |-> "", msg |-> "", about |-> "",
            args |-> EmptyMap]

\* How one call of run() ends. status is "returned", "exit" (SystemExit
\* from argparse, with parse.code) or "raised" (error names the exception).
RunResult(status, error, accesses, build, parse, instantiated, called, passed) ==
    [status |-> status, error |-> error, accesses |-> accesses, build |-> build,
     parse |-> parse, instantiated |-> instantiated, called |-> called,
     passed |-> passed]

\* Faulty variant of Dispatch: the call is wrapped in a try block that
\* swallows the error.
Dispatch_Swallow(pkg, acc1, acc2, build, parse) ==
    LET which == IF "which" \in DOMAIN parse.args THEN parse.args["which"] ELSE None
        both == <<Access(acc1), Access(acc2)>>
    IN IF acc2.raised
       THEN RunResult("raised", "ImportError", both, build, parse, <<>>, <<>>, EmptyMap)
       ELSE IF which.tag # "str" \/ which.s \notin DOMAIN acc2.value.map
       THEN RunResult("raised", "KeyError", both, build, parse, <<>>, <<>>, EmptyMap)
       ELSE IF ~ModuleAt(pkg, which.s).hasCommand
       THEN RunResult("raised", "AttributeError", both, build, parse, <<>>, <<>>, EmptyMap)
       ELSE IF ModuleAt(pkg, which.s).call = "missing"
       THEN RunResult("returned", "", both, build, parse, <<which.s>>, <<>>, EmptyMap)
       ELSE RunResult("returned", "", both, build, parse, <<which.s>>, <<which.s>>, parse.args)

\* command = self.command_list[args.which].Command(); command.call(args)
\* acc2 is the access to command_list made by the lookup. A namespace
\* without the attribute which makes args.which raise AttributeError.
Dispatch(pkg, acc1, acc2, build, parse) ==
    LET which == IF "which" \in DOMAIN parse.args THEN parse.args["which"] ELSE None
        both == <<Access(acc1), Access(acc2)>>
    IN IF "which" \notin DOMAIN parse.args
       THEN RunResult("raised", "AttributeError", both, build, parse, <<>>, <<>>, EmptyMap)
       ELSE IF acc2.raised
       THEN RunResult("raised", "ImportError", both, build, parse, <<>>, <<>>, EmptyMap)
       ELSE IF which.tag # "str" \/ which.s \notin DOMAIN acc2.value.map
       THEN RunResult("raised", "KeyError", both, build, parse, <<>>, <<>>, EmptyMap)
       ELSE IF ~ModuleAt(pkg, which.s).hasCommand
       THEN RunResult("raised", "AttributeError", both, build, parse, <<>>, <<>>, EmptyMap)
       ELSE IF ModuleAt(pkg, which.s).call = "missing"
       THEN RunResult("raised", "AttributeError", both, build, parse, <<which.s>>, <<>>, EmptyMap)
       ELSE IF ModuleAt(pkg, which.s).call = "raises"
       THEN RunResult("raised", "CommandError", both, build, parse, <<which.s>>, <<which.s>>, parse.args)
       ELSE RunResult("returned", "", both, build, parse, <<which.s>>, <<which.s>>, parse.args)

\* run(): args = self.argument_parser.parse_args(), then the dispatch.
\* acc1 is the access to command_list made by argument_parser, build what
\* argument_parser did after it. The value is how the call ends (result)
\* and the registry state it leaves (list, objs, enums).
run(pkg, acc1, build, argv) ==
    LET parse == parse_args(build.parser, argv)
        acc2 == command_list(pkg, acc1.list, acc1.objs, acc1.enums)
        after1(result) == [result |-> result, list |-> acc1.list, objs |-> acc1.objs,
                           enums |-> acc1.enums]
    IN IF acc1.raised
       THEN after1(RunResult("raised", "ImportError", <<Access(acc1)>>, NoBuild, NoParse,
                             <<>>, <<>>, EmptyMap))
       ELSE IF build.raised
       THEN after1(RunResult("raised", build.error, <<Access(acc1)>>, build, NoParse,
                             <<>>, <<>>, EmptyMap))
       ELSE IF parse.status = "exit"
       THEN after1(RunResult("exit", "SystemExit", <<Access(acc1)>>, build, parse,
                             <<>>, <<>>, EmptyMap))
       ELSE [result |-> Dispatch(pkg, acc1, acc2, build, parse), list |-> acc2.list,
             objs |-> acc2.objs, enums |-> acc2.enums]

(* ------------------------------ command lines -------------------------- *)
\* --opt=raw tokens: a number and a word for the int flag, the abbreviation
\* --user, a module name for --which, and -h.
Token(opt, raw) == [opt |-> opt, raw |-> raw]
OptionTokens ==
    {Token("--user_id", "5"), Token("--user_id", "beta"), Token("--user", "5"),
     Token("--name", "beta"), Token("--which", "beta"), Token(HelpOption, "")}
CommandTokens == {NoCommand, "bogus"} \cup {ModuleNames[i] : i \in 1..MaxModules}
NoArgv == [help |-> FALSE, cmd |-> NoCommand, rest |-> <<>>]
\* Tokens after a top-level -h or without a subcommand are never looked at.
Argvs ==
    {a \in [help : BOOLEAN, cmd : CommandTokens,
            rest : UNION {[1..n -> OptionTokens] : n \in 0..MaxArgs}] :
        (a.help \/ a.cmd = NoCommand) => a.rest = <<>>}
\* sys.argv is read by parse_args only: a run that raises before it reads
\* no command line, and the tokens after a subcommand that is no choice of
\* the parser are never handed to a subparser.
Read(argv, acc1, build) ==
    IF acc1.raised \/ build.raised THEN argv = NoArgv
    ELSE argv.cmd \notin DOMAIN build.parser.sub => argv.rest = <<>>

(* -------------------------------- actions ------------------------------ *)
NoOutcome ==
    [op |-> "none", argv |-> NoArgv, result |-> RunResult("none", "", <<>>, NoBuild, NoParse, <<>>, <<>>, EmptyMap)]

Init ==
    /\ package \in Packages
    /\ _command_list = NoneList
    /\ objects = 0
    /\ enumerations = 0
    /\ firstMapping = 0
    /\ outcome = NoOutcome
    /\ pc = "ready"

\* id of the first mapping any access returned
NoteFirst(first, acc) == IF first = 0 /\ ~acc.raised THEN acc.value.id ELSE first

\* runner.command_list
AccessCommandList ==
    /\ pc = "ready"
    /\ enumerations < MaxEnumerations
    /\ \E acc \in {command_list(package, _command_list, objects, enumerations)} :
          /\ _command_list' = acc.list
          /\ objects' = acc.objs
          /\ enumerations' = acc.enums
          /\ firstMapping' = NoteFirst(firstMapping, acc)
          /\ outcome' = [NoOutcome EXCEPT
                           !.op = "command_list",
                           !.result = RunResult(IF acc.raised THEN "raised" ELSE "returned",
                                                IF acc.raised THEN "ImportError" ELSE "",
                                                <<Access(acc)>>, NoBuild, NoParse,
                                                <<>>, <<>>, EmptyMap)]
    /\ UNCHANGED <<package, pc>>

\* what the argument_parser property does after its access acc to command_list
ParserOf(pkg, acc) ==
    IF acc.raised THEN NoBuild ELSE argument_parser(pkg, iteritems(acc.value.map))

\* runner.argument_parser
AccessArgumentParser ==
    /\ pc = "ready"
    /\ enumerations < MaxEnumerations
    /\ \E acc \in {command_list(package, _command_list, objects, enumerations)} :
       \E build \in {ParserOf(package, acc)} :
          /\ _command_list' = acc.list
          /\ objects' = acc.objs
          /\ enumerations' = acc.enums
          /\ firstMapping' = NoteFirst(firstMapping, acc)
          /\ outcome' = [NoOutcome EXCEPT
                           !.op = "argument_parser",
                           !.result = RunResult(
                               IF acc.raised \/ build.raised THEN "raised" ELSE "returned",
                               IF acc.raised THEN "ImportError" ELSE build.error,
                               <<Access(acc)>>, build, NoParse, <<>>, <<>>, EmptyMap)]
    /\ UNCHANGED <<package, pc>>

\* runner.run() with sys.argv[1:] = argv: the last thing the process does
\* with the runner (the __main__ block; the parser exits the process).
Run ==
    /\ pc = "ready"
    /\ enumerations < MaxEnumerations
    /\ \E acc1 \in {command_list(package, _command_list, objects, enumerations)} :
       \E build \in {ParserOf(package, acc1)} :
       \E argv \in {a \in Argvs : Read(a, acc1, build)} :
       \E r \in {run(package, acc1, build, argv)} :
          /\ _command_list' = r.list
          /\ objects' = r.objs
          /\ enumerations' = r.enums
          /\ firstMapping' = NoteFirst(firstMapping, acc1)
          /\ outcome' = [op |-> "run", argv |-> argv, result |-> r.result]
    /\ pc' = "done"
    /\ UNCHANGED package

Next == AccessCommandList \/ AccessArgumentParser \/ Run

Spec == Init /\ [][Next]_vars

(* ------------------------------ properties ----------------------------- *)
R == outcome.result
\* the names the registry held when the handler's first access returned
Registry == R.accesses[1].keys
\* the handler got its parser: the registry loaded and the build finished
Built == outcome.op \in {"argument_parser", "run"} /\ ~R.accesses[1].raised /\ ~R.build.raised
Parser == R.build.parser
ParsedOk == outcome.op = "run" /\ R.parse.status = "ok"
ConformingNames == {nm \in NamesOf(package) : Conforming(ModuleAt(package, nm))}
AllLoad == \A i \in 1..Len(package) : package[i].loads
SchemaOf(nm) == ModuleAt(package, nm).schema
\* positions of the tokens of the command line that select flag f
Supplied(f) ==
    {i \in 1..Len(outcome.argv.rest) : Resolve(SchemaOf(outcome.argv.cmd), outcome.argv.rest[i].opt) = f}
HelpBefore(i) ==
    \E j \in 1..(i - 1) :
        Resolve(SchemaOf(outcome.argv.cmd), outcome.argv.rest[j].opt) = HelpOption
Max(S) == CHOOSE x \in S : \A y \in S : y <= x

\* C1: whenever argument_parser returns a parser, command_list holds an
\* entry for every module of the namespace and the parser's subcommands
\* (with their help texts) are exactly the conforming modules.
C1_ParserListsConforming ==
    (outcome.op = "argument_parser" /\ R.status = "returned") =>
        /\ DOMAIN _command_list.map = NamesOf(package)
        /\ Range(Parser.choices) = ConformingNames
        /\ \A nm \in ConformingNames :
              Parser.sub[nm].help = ModuleAt(package, nm).description

\* C1 restricted to the registry: the parser's subcommands are exactly the
\* conforming modules among the entries of command_list, each with its
\* description, and each registered once.
C1_ParserListsConformingOfRegistry ==
    (outcome.op = "argument_parser" /\ R.status = "returned") =>
        /\ Range(Parser.choices) = ConformingNames \cap DOMAIN _command_list.map
        /\ Len(Parser.choices) = Cardinality(Range(Parser.choices))
        /\ \A nm \in Range(Parser.choices) :
              Parser.sub[nm].help = ModuleAt(package, nm).description

\* C2: on a namespace whose modules all load (the empty one included) the
\* namespace is enumerated at most once and every access to command_list
\* returns the mapping object the first access returned.
C2_EnumeratedOnce ==
    AllLoad =>
        /\ enumerations <= 1
        /\ \A i \in DOMAIN R.accesses :
              ~R.accesses[i].raised => R.accesses[i].id = firstMapping

\* C2 on the namespaces with at least one module, all loading.
C2_EnumeratedOnceNonEmpty ==
    (AllLoad /\ Len(package) > 0) =>
        /\ enumerations <= 1
        /\ \A i \in DOMAIN R.accesses :
              ~R.accesses[i].raised => R.accesses[i].id = firstMapping

\* C3: after a successful parse, run() instantiates and calls exactly the
\* unit named by the subcommand token, once, with the parsed flags (for a
\* unit that has a call method).
C3_DispatchesSubcommand ==
    (ParsedOk /\ ModuleAt(package, outcome.argv.cmd).call # "missing") =>
        /\ R.instantiated = <<outcome.argv.cmd>>
        /\ R.called = <<outcome.argv.cmd>>
        /\ R.passed = R.parse.args

\* A user input error the parser gets to see: no top-level -h, and an
\* unknown subcommand, or a value its flag's type rejects with no -h before
\* it, or a required flag left out of a command line without -h.
UnknownCommand ==
    outcome.argv.cmd # NoCommand /\ outcome.argv.cmd \notin (ConformingNames \cap Registry)
RejectedValue ==
    \E i \in 1..Len(outcome.argv.rest) :
        LET f == Resolve(SchemaOf(outcome.argv.cmd), outcome.argv.rest[i].opt)
        IN /\ f \in DOMAIN SchemaOf(outcome.argv.cmd)
           /\ ~Coerce(SchemaOf(outcome.argv.cmd)[f].type, outcome.argv.rest[i].raw).ok
           /\ ~HelpBefore(i)
MissingRequired ==
    /\ \E f \in DOMAIN SchemaOf(outcome.argv.cmd) :
          SchemaOf(outcome.argv.cmd)[f].required /\ Supplied(f) = {}
    /\ ~HelpBefore(Len(outcome.argv.rest) + 1)
UserInputError ==
    /\ outcome.op = "run" /\ Built /\ ~outcome.argv.help
    /\ \/ UnknownCommand
       \/ outcome.argv.cmd # NoCommand /\ (RejectedValue \/ MissingRequired)

C5_NoSubcommandFails ==
    (outcome.op = "run" /\ Built /\ outcome.argv.cmd = NoCommand) =>
        /\ R.status = "exit" /\ R.parse.code # 0 /\ R.parse.stream = "stderr"
        /\ Len(R.accesses) = 1 /\ R.instantiated = <<>> /\ R.called = <<>>

\* C5 amended: a command line with no subcommand ends run() in the
\* parser's exit, with status 2 and "too few arguments" on the error stream
\* unless -h/--help was given, and then with status 0 and the help text on
\* standard output; either way no unit is looked up, instantiated or called.
C5_NoSubcommandExits ==
    (outcome.op = "run" /\ Built /\ outcome.argv.cmd = NoCommand) =>
        /\ R.status = "exit"
        /\ IF outcome.argv.help
           THEN R.parse.code = 0 /\ R.parse.stream = "stdout" /\ R.parse.msg = "help"
           ELSE R.parse.code = 2 /\ R.parse.stream = "stderr"
                /\ R.parse.msg = "too few arguments"
        /\ Len(R.accesses) = 1 /\ R.instantiated = <<>> /\ R.called = <<>>

\* C5's case: an empty command line given to a runner with a subcommand.
C5_Witness ==
    /\ outcome.op = "run" /\ Built /\ outcome.argv = NoArgv
    /\ Parser.choices # <<>> /\ R.parse.code = 2

\* C6: after a successful parse every flag of the selected schema that is
\* neither required nor given a default is in the parsed flags, with the
\* coerced value the user supplied (the last one) or None.
C6_OptionalFlagsPresent ==
    ParsedOk =>
        \A f \in DOMAIN SchemaOf(outcome.argv.cmd) :
            LET spec == SchemaOf(outcome.argv.cmd)[f]
            IN (~spec.required /\ ~spec.hasDefault) =>
                  /\ Dest(f) \in DOMAIN R.parse.args
                  /\ R.parse.args[Dest(f)] =
                        IF Supplied(f) = {} THEN None
                        ELSE Coerce(spec.type, outcome.argv.rest[Max(Supplied(f))].raw).value

\* C6 for the flags whose dest is not which.
C6_OptionalFlagsPresentExceptWhich ==
    ParsedOk =>
        \A f \in DOMAIN SchemaOf(outcome.argv.cmd) \ {"--which"} :
            LET spec == SchemaOf(outcome.argv.cmd)[f]
            IN (~spec.required /\ ~spec.hasDefault) =>
                  /\ Dest(f) \in DOMAIN R.parse.args
                  /\ R.parse.args[Dest(f)] =
                        IF Supplied(f) = {} THEN None
                        ELSE Coerce(spec.type, outcome.argv.rest[Max(Supplied(f))].raw).value

\* C7: after a successful parse of subcommand c, which is c, the parsed
\* flags are those of c's schema, and no token of the command line is a
\* flag that another command declares and c does not.
C7_FlagsIsolated ==
    ParsedOk =>
        /\ R.parse.args["which"] = StrV(outcome.argv.cmd)
        /\ DOMAIN R.parse.args = {Dest(f) : f \in DOMAIN SchemaOf(outcome.argv.cmd)} \cup {"which"}
        /\ \A i \in 1..Len(outcome.argv.rest) :
              ~\E other \in (ConformingNames \cap Registry) \ {outcome.argv.cmd} :
                  /\ outcome.argv.rest[i].opt \in DOMAIN SchemaOf(other)
                  /\ outcome.argv.rest[i].opt \notin DOMAIN SchemaOf(outcome.argv.cmd)

\* C8: when the unit that args.which selects has a call that raises, or no
\* call at all, run() ends with that error raised, having called no other
\* unit.
C8_CallErrorPropagates ==
    (ParsedOk /\ R.instantiated # <<>>
        /\ ModuleAt(package, R.instantiated[1]).call \in {"raises", "missing"}) =>
        /\ R.status = "raised"
        /\ R.error = IF ModuleAt(package, R.instantiated[1]).call = "raises"
                     THEN "CommandError" ELSE "AttributeError"
        /\ Len(R.instantiated) = 1
        /\ \A i \in DOMAIN R.called : R.called[i] = R.instantiated[1]
        /\ Len(R.called) <= 1

\* C8's case: a command line that selects a unit whose call raises.
C8_Witness ==
    /\ ParsedOk /\ R.instantiated = <<outcome.argv.cmd>>
    /\ ModuleAt(package, outcome.argv.cmd).call = "raises"
    /\ R.status = "raised" /\ R.called = <<outcome.argv.cmd>>

\* C9: when the registry holds a conforming unit with a malformed schema,
\* argument_parser raises the construction error instead of returning a
\* parser, and run() dispatches nothing.
C9_MalformedSchemaPropagates ==
    (outcome.op \in {"argument_parser", "run"} /\ ~R.accesses[1].raised
        /\ \E nm \in Registry : Malformed(ModuleAt(package, nm))) =>
        /\ R.status = "raised" /\ R.error \in {"AttributeError", "TypeError"}
        /\ R.build.raised /\ R.build.parser = EmptyParser
        /\ R.instantiated = <<>> /\ R.called = <<>>

\* C9's case: run() on a registry with a well formed unit and a malformed one.
C9_Witness ==
    /\ outcome.op = "run" /\ ~R.accesses[1].raised /\ R.build.raised
    /\ \E nm \in Registry : Malformed(ModuleAt(package, nm))
    /\ \E nm \in Registry : Conforming(ModuleAt(package, nm)) /\ ~Malformed(ModuleAt(package, nm))

\* C10: every mapping an access to command_list returns has an entry for
\* every module of the namespace.
C10_ReturnedRegistryComplete ==
    \A i \in DOMAIN R.accesses :
        ~R.accesses[i].raised => R.accesses[i].keys = NamesOf(package)
====
